---------------------------- MODULE Spec2Model ----------------------------
(***************************************************************************)
(* Model of map.py (racebox): the CSV reader with its bounding-box filter, *)
(* the bounds calculator, the zoom estimator, the map renderer with its    *)
(* two guards, and the driver loop over the discovered CSV files.          *)
(*                                                                         *)
(* Numbers.  A Python float is modelled in fixed point: a finite value is  *)
(* the integer number of units of 1/2560 degree (2560 = 10 * 2^8, so that  *)
(* both the decimal constants 12.0, 18.9, 48.5, 51.5 and the powers of two *)
(* 2^-9 .. 2^13 degrees that decide the zoom level are exact), and the     *)
(* three non-finite floats have codes outside the finite range.            *)
(***************************************************************************)
EXTENDS Integers, Sequences, FiniteSets, TLC

VARIABLES
    csv_files,      \* __main__: the list find_csv_files() returned (file names)
    file_idx,       \* __main__: how many files the for loop has taken
    pc,             \* position of the single thread of control
    fault,          \* the uncaught exception that ended the run, or "none"
    file,           \* content of the file being processed (run-length rows)
    i,              \* read_gps_data: rows consumed by enumerate(reader)
    rd_longitudes,  \* read_gps_data: local list longitudes
    rd_latitudes,   \* read_gps_data: local list latitudes
    longitudes,     \* plot_gps_path: local longitudes (<<>> while unbound)
    latitudes,      \* plot_gps_path: local latitudes
    bounds,         \* plot_gps_path: (min_lon, max_lon, min_lat, max_lat), <<>> while unbound
    zoom,           \* plot_gps_path: <<zoom>>, <<>> while unbound
    diag,           \* console lines printed since the last "Plotting:" line
    fx,             \* render effects since the last "Plotting:" line
    opened,         \* names whose processing started, in order
    completed,      \* [f, outcome] of every plot_gps_path call that returned
    zargs,          \* estimate_zoom called on its own: the argument tuples
    zrets           \* estimate_zoom called on its own: the values returned

vars == <<csv_files, file_idx, pc, fault, file, i, rd_longitudes, rd_latitudes,
          longitudes, latitudes, bounds, zoom, diag, fx, opened, completed,
          zargs, zrets>>

---------------------------------------------------------------------------
(* Bounds of the model *)

\* longest list find_csv_files() returns
MaxFiles == 3
\* estimate_zoom on its own: the spans tried are 2^-7 degree times
\* 32^j for j in 0..ZoomSteps, each with its two neighbours, and 0
ZoomSteps == 4

---------------------------------------------------------------------------
(* Fixed-point floats *)

\* units per 0.1 degree (2^8)
Tenth == 16 * 16
\* units per degree
Scale == 10 * Tenth

PosInf == Scale * 400000
NegInf == 0 - PosInf
NaN == PosInf + 1

\* IEEE comparison a <= b: false as soon as one side is NaN
FLe(a, b) == a # NaN /\ b # NaN /\ a <= b

\* Define the bounding box for the Czech Republic
LAT_MIN == 485 * Tenth
LAT_MAX == 515 * Tenth
LON_MIN == 120 * Tenth
LON_MAX == 189 * Tenth

\* the threshold of plot_gps_path's first guard
MinPoints == 1000

\* rows echoed at the head of each file
EchoRows == 5

---------------------------------------------------------------------------
(* CSV fields and float() *)

\* The field texts that float() accepts, with the value it returns.
Numeral ==
    [s \in {"11.999609375", "12.0", "12.0078125", "12.008203125", "14.5",
            "16.0", "16.000390625", "18.9", "18.900390625",
            "48.499609375", "48.5", "48.5078125", "50.0", "51.5",
            "51.500390625", "nan", "inf", "-inf"} |->
        CASE s = "11.999609375" -> LON_MIN - 1
          [] s = "12.0"         -> LON_MIN
          [] s = "12.0078125"   -> LON_MIN + 20
          [] s = "12.008203125" -> LON_MIN + 21
          [] s = "14.5"         -> 145 * Tenth
          [] s = "16.0"         -> 160 * Tenth
          [] s = "16.000390625" -> 160 * Tenth + 1
          [] s = "18.9"         -> LON_MAX
          [] s = "18.900390625" -> LON_MAX + 1
          [] s = "48.499609375" -> LAT_MIN - 1
          [] s = "48.5"         -> LAT_MIN
          [] s = "48.5078125"   -> LAT_MIN + 20
          [] s = "50.0"         -> 500 * Tenth
          [] s = "51.5"         -> LAT_MAX
          [] s = "51.500390625" -> LAT_MAX + 1
          [] s = "nan"          -> NaN
          [] s = "inf"          -> PosInf
          [] s = "-inf"         -> NegInf]

\* float(s): the value, or ValueError for a text that is no number
ParseFloat(s) ==
    IF s \in DOMAIN Numeral
        THEN [ok |-> TRUE, v |-> Numeral[s]]
        ELSE [ok |-> FALSE, v |-> 0]

Row(lon, lat) == [Longitude |-> lon, Latitude |-> lat]

\* n consecutive rows with the same two fields
Seg(lon, lat, n) == [row |-> Row(lon, lat), n |-> n]

RECURSIVE NumRows(_)
NumRows(f) == IF f = <<>> THEN 0 ELSE Head(f).n + NumRows(Tail(f))

\* the j-th data row of the file, 1 <= j <= NumRows(f)
RECURSIVE RowAt(_, _)
RowAt(f, j) == IF j <= Head(f).n THEN Head(f).row ELSE RowAt(Tail(f), j - Head(f).n)

\* The files the directory may hold.
FileSet ==
    { \* header only
      <<>>,
      \* a short file: accepted and rejected rows interleaved
      << Seg("14.5", "50.0", 1), Seg("18.900390625", "50.0", 1),
         Seg("12.0", "51.5", 1), Seg("14.5", "48.499609375", 1),
         Seg("nan", "50.0", 1), Seg("16.0", "inf", 1),
         Seg("18.9", "48.5", 2), Seg("-inf", "nan", 1) >>,
      \* no accepted row among MinPoints + 1 rows
      << Seg("11.999609375", "50.0", MinPoints - 1), Seg("14.5", "nan", 1),
         Seg("14.5", "51.500390625", 1) >>,
      \* MinPoints - 1 accepted rows among MinPoints + 1 rows
      << Seg("14.5", "50.0", 500), Seg("14.5", "14.5", 2),
         Seg("16.0", "48.5", MinPoints - 501) >>,
      \* exactly MinPoints accepted rows, all the same point
      << Seg("50.0", "14.5", 1), Seg("14.5", "50.0", MinPoints) >>,
      \* exactly MinPoints accepted rows spanning the whole filter box
      << Seg("14.5", "50.0", MinPoints - 2), Seg("18.9", "51.5", 1),
         Seg("16.0", "51.500390625", 1), Seg("12.0", "48.5", 1) >>,
      \* MinPoints + 1 accepted rows, longitude span exactly 4 degrees
      << Seg("16.0", "48.5078125", 1), Seg("12.0", "48.5", MinPoints) >>,
      \* longitude span one unit above 2^-7 degree
      << Seg("12.0", "48.5", MinPoints - 1), Seg("12.008203125", "48.5078125", 1) >>,
      \* a malformed Longitude after MinPoints accepted rows
      << Seg("14.5", "50.0", MinPoints), Seg("abc", "50.0", 1),
         Seg("14.5", "50.0", 1) >>,
      \* a malformed Longitude in the first row
      << Seg("12,5", "50.0", 1), Seg("14.5", "50.0", 1) >>,
      \* a malformed Latitude after one accepted row
      << Seg("14.5", "50.0", 1), Seg("14.5", "", 1) >>,
      \* 500 accepted rows and 10,000 rows outside the box
      << Seg("14.5", "50.0", 500), Seg("18.900390625", "50.0", 10000) >> }

---------------------------------------------------------------------------
(* read_gps_data *)

\* the filter with its bounds exclusive
InBox_strict(longitude, latitude) ==
    /\ FLe(LON_MIN, longitude) /\ longitude # LON_MIN
    /\ FLe(longitude, LON_MAX) /\ longitude # LON_MAX
    /\ FLe(LAT_MIN, latitude) /\ latitude # LAT_MIN
    /\ FLe(latitude, LAT_MAX) /\ latitude # LAT_MAX

\* the filter on the longitude alone
InBox_lononly(longitude, latitude) ==
    FLe(LON_MIN, longitude) /\ FLe(longitude, LON_MAX)

\* LON_MIN <= longitude <= LON_MAX and LAT_MIN <= latitude <= LAT_MAX
InBox(longitude, latitude) ==
    /\ FLe(LON_MIN, longitude) /\ FLe(longitude, LON_MAX)
    /\ FLe(LAT_MIN, latitude) /\ FLe(latitude, LAT_MAX)

\* Console lines since the last "Plotting:" line, by kind: "No CSV files
\* found", "Row i: ...", "Data outside CZ skipped", "Skipping ...: Less than
\* 1000 rows", "No valid GPS data to plot", "Using zoom level: z".
NoDiag == [nofiles |-> 0, echo |-> 0, outside |-> 0, less1000 |-> 0,
           novalid |-> 0, zoomlevel |-> <<>>]

\* Render effects since the last "Plotting:" line: point geometries built,
\* zoom levels requested from the tile provider, figures shown.
NoFx == [geoms |-> 0, basemap |-> <<>>, shown |-> 0]

\* for csv_file in csv_files: print("Plotting: ..."); plot_gps_path(csv_file)
\* up to the open() of read_gps_data. The content of the named file is
\* whatever the directory holds when it is opened.
StartFile ==
    /\ pc \in {"main", "return"}
    /\ file_idx < Len(csv_files)
    /\ \E f \in FileSet : file' = f
    /\ file_idx' = file_idx + 1
    /\ opened' = Append(opened, csv_files[file_idx + 1])
    /\ i' = 0
    /\ rd_longitudes' = <<>>
    /\ rd_latitudes' = <<>>
    /\ longitudes' = <<>>
    /\ latitudes' = <<>>
    /\ bounds' = <<>>
    /\ zoom' = <<>>
    /\ diag' = NoDiag
    /\ fx' = NoFx
    /\ pc' = "read"
    /\ UNCHANGED <<csv_files, fault, completed, zargs, zrets>>

\* a reader that coerces a malformed field to nan instead of raising
ParseRow_lenient(row) ==
    LET lon == ParseFloat(row["Longitude"])
        lat == ParseFloat(row["Latitude"])
    IN  [ok |-> TRUE,
         longitude |-> IF lon.ok THEN lon.v ELSE NaN,
         latitude |-> IF lat.ok THEN lat.v ELSE NaN]

\* longitude = float(row["Longitude"]); latitude = float(row["Latitude"]):
\* ok = FALSE where one of the two raises ValueError
ParseRow(row) ==
    LET lon == ParseFloat(row["Longitude"])
        lat == ParseFloat(row["Latitude"])
    IN  [ok |-> lon.ok /\ lat.ok, longitude |-> lon.v, latitude |-> lat.v]

\* the skip line printed only for the rows that were not echoed
RowDiag_elif(d, idx, inside) ==
    [d EXCEPT !.echo = IF idx < EchoRows THEN @ + 1 ELSE @,
              !.outside = IF inside \/ idx < EchoRows THEN @ ELSE @ + 1]

\* the console after row idx: the echo of the first rows, and the
\* "Data outside CZ skipped" line of the else branch
RowDiag(d, idx, inside) ==
    [d EXCEPT !.echo = IF idx < EchoRows THEN @ + 1 ELSE @,
              !.outside = IF inside THEN @ ELSE @ + 1]

\* One iteration of the loop over the rows: both fields through float(),
\* the echo of the first rows, the filter.
ReadRow ==
    /\ pc = "read"
    /\ i < NumRows(file)
    /\ LET r == ParseRow(RowAt(file, i + 1))
       IN  IF ~r.ok
             THEN /\ pc' = "aborted"
                  /\ fault' = "ValueError"
                  /\ UNCHANGED <<i, rd_longitudes, rd_latitudes, diag>>
             ELSE /\ i' = i + 1
                  /\ diag' = RowDiag(diag, i, InBox(r.longitude, r.latitude))
                  /\ IF InBox(r.longitude, r.latitude)
                       THEN /\ rd_longitudes' = Append(rd_longitudes, r.longitude)
                            /\ rd_latitudes' = Append(rd_latitudes, r.latitude)
                       ELSE UNCHANGED <<rd_longitudes, rd_latitudes>>
                  /\ UNCHANGED <<pc, fault>>
    /\ UNCHANGED <<csv_files, file_idx, file, longitudes, latitudes, bounds,
                   zoom, fx, opened, completed, zargs, zrets>>

\* return longitudes, latitudes; bound to plot_gps_path's locals
ReadReturn ==
    /\ pc = "read"
    /\ i = NumRows(file)
    /\ longitudes' = rd_longitudes
    /\ latitudes' = rd_latitudes
    /\ rd_longitudes' = <<>>
    /\ rd_latitudes' = <<>>
    /\ i' = 0
    /\ pc' = "guard"
    /\ UNCHANGED <<csv_files, file_idx, fault, file, bounds, zoom, diag, fx,
                   opened, completed, zargs, zrets>>

---------------------------------------------------------------------------
(* calculate_bounds *)

Min2(a, b) == IF b < a THEN b ELSE a
Max2(a, b) == IF b > a THEN b ELSE a

\* the values a list holds
Values(s) == {s[j] : j \in 1..Len(s)}

\* min(s) and max(s) of a non-empty list of numbers: the least and the
\* greatest of its values
MinSeq(s) == LET S == Values(s) IN CHOOSE m \in S : \A x \in S : m <= x
MaxSeq(s) == LET S == Values(s) IN CHOOSE m \in S : \A x \in S : m >= x

\* the latitude minimum taken over the longitudes
calculate_bounds_slip(lons, lats) ==
    << MinSeq(lons), MaxSeq(lons), MinSeq(lons), MaxSeq(lats) >>

\* return min(longitudes), max(longitudes), min(latitudes), max(latitudes)
calculate_bounds(lons, lats) ==
    << MinSeq(lons), MaxSeq(lons), MinSeq(lats), MaxSeq(lats) >>

---------------------------------------------------------------------------
(* estimate_zoom *)

\* A real number that need not be a multiple of the unit is kept as its
\* floor and whether it has a fractional part: [fl |-> n, frac |-> b].

\* floor(log2(d / Scale)) for d >= p = Scale * 2^e
RECURSIVE Log2Up(_, _, _)
Log2Up(d, p, e) ==
    IF 2 * p <= d THEN Log2Up(d, 2 * p, e + 1)
    ELSE [fl |-> e, frac |-> p # d]

\* floor(log2(d / Scale)) for 0 < q = d * 2^m < Scale
RECURSIVE Log2Down(_, _)
Log2Down(q, m) ==
    IF 2 * q < Scale THEN Log2Down(2 * q, m + 1)
    ELSE [fl |-> 0 - (m + 1), frac |-> 2 * q # Scale]

\* np.log(x) / np.log(2) for x = d / Scale > 0
Log2(d) == IF d >= Scale THEN Log2Up(d, Scale, 0) ELSE Log2Down(d, 0)

\* n - r for an integer n
IntMinus(n, r) == [fl |-> IF r.frac THEN n - r.fl - 1 ELSE n - r.fl, frac |-> r.frac]

\* int(r): truncation toward zero
IntOf(r) == IF r.frac /\ r.fl < 0 THEN r.fl + 1 ELSE r.fl

\* estimate_zoom with the quotient rounded up instead of truncated
estimate_zoom_ceil(min_lon, max_lon, min_lat, max_lat) ==
    LET lon_diff == max_lon - min_lon
        lat_diff == max_lat - min_lat
        d == Max2(lon_diff, lat_diff)
        r == IntMinus(12, Log2(d))
    IN  IF lon_diff = 0 /\ lat_diff = 0 THEN [ok |-> TRUE, v |-> 19]
        ELSE IF d <= 0 THEN [ok |-> FALSE, v |-> 0]
        ELSE [ok |-> TRUE,
              v |-> Max2(0, Min2(IF r.frac THEN r.fl + 1 ELSE r.fl, 19))]

\* estimate_zoom with the single-point case answered by the lowest level
estimate_zoom_zero(min_lon, max_lon, min_lat, max_lat) ==
    LET lon_diff == max_lon - min_lon
        lat_diff == max_lat - min_lat
        d == Max2(lon_diff, lat_diff)
    IN  IF lon_diff = 0 /\ lat_diff = 0 THEN [ok |-> TRUE, v |-> 0]
        ELSE IF d <= 0 THEN [ok |-> FALSE, v |-> 0]
        ELSE [ok |-> TRUE,
              v |-> Max2(0, Min2(IntOf(IntMinus(12, Log2(d))), 19))]

\* [ok |-> TRUE, v |-> zoom], or ok = FALSE where int() raises: the larger
\* difference is not positive, so that np.log gives -inf or nan.
estimate_zoom(min_lon, max_lon, min_lat, max_lat) ==
    LET lon_diff == max_lon - min_lon
        lat_diff == max_lat - min_lat
        d == Max2(lon_diff, lat_diff)
    IN  IF lon_diff = 0 /\ lat_diff = 0 THEN [ok |-> TRUE, v |-> 19]
        ELSE IF d <= 0 THEN [ok |-> FALSE, v |-> 0]
        ELSE [ok |-> TRUE,
              v |-> Max2(0, Min2(IntOf(IntMinus(12, Log2(d))), 19))]

---------------------------------------------------------------------------
(* plot_gps_path *)

\* the guard with <= for <
TooFew_offbyone(lons, lats) == Len(lons) <= MinPoints \/ Len(lats) <= MinPoints

\* the guard letting the empty set through to the second guard
TooFew_nonempty(lons, lats) ==
    /\ Len(lons) > 0 /\ Len(lats) > 0
    /\ (Len(lons) < MinPoints \/ Len(lats) < MinPoints)

\* len(longitudes) < 1000 or len(latitudes) < 1000
TooFew(lons, lats) == Len(lons) < MinPoints \/ Len(lats) < MinPoints

\* the first guard leaving the program instead of the function
Guard1000_exit ==
    /\ pc = "guard"
    /\ IF Len(longitudes) < MinPoints \/ Len(latitudes) < MinPoints
         THEN /\ diag' = [diag EXCEPT !.less1000 = @ + 1]
              /\ completed' = Append(completed,
                     [f |-> csv_files[file_idx], outcome |-> "skipped"])
              /\ pc' = "done"
         ELSE /\ pc' = "guard_empty"
              /\ UNCHANGED <<diag, completed>>
    /\ UNCHANGED <<csv_files, file_idx, fault, file, i, rd_longitudes,
                   rd_latitudes, longitudes, latitudes, bounds, zoom, fx,
                   opened, zargs, zrets>>

\* if len(longitudes) < 1000 or len(latitudes) < 1000: print; return
Guard1000 ==
    /\ pc = "guard"
    /\ IF TooFew(longitudes, latitudes)
         THEN /\ diag' = [diag EXCEPT !.less1000 = @ + 1]
              /\ completed' = Append(completed,
                     [f |-> csv_files[file_idx], outcome |-> "skipped"])
              /\ pc' = "return"
         ELSE /\ pc' = "guard_empty"
              /\ UNCHANGED <<diag, completed>>
    /\ UNCHANGED <<csv_files, file_idx, fault, file, i, rd_longitudes,
                   rd_latitudes, longitudes, latitudes, bounds, zoom, fx,
                   opened, zargs, zrets>>

\* if len(longitudes) == 0 or len(latitudes) == 0: print; return
GuardEmpty ==
    /\ pc = "guard_empty"
    /\ IF Len(longitudes) = 0 \/ Len(latitudes) = 0
         THEN /\ diag' = [diag EXCEPT !.novalid = @ + 1]
              /\ completed' = Append(completed,
                     [f |-> csv_files[file_idx], outcome |-> "skipped"])
              /\ pc' = "return"
         ELSE /\ pc' = "plot"
              /\ UNCHANGED <<diag, completed>>
    /\ UNCHANGED <<csv_files, file_idx, fault, file, i, rd_longitudes,
                   rd_latitudes, longitudes, latitudes, bounds, zoom, fx,
                   opened, zargs, zrets>>

\* the GeoDataFrame of one Point per zip(longitudes, latitudes) pair,
\* reprojected and plotted
BuildGeoms ==
    /\ pc = "plot"
    /\ fx' = [fx EXCEPT !.geoms = Min2(Len(longitudes), Len(latitudes))]
    /\ pc' = "bounds"
    /\ UNCHANGED <<csv_files, file_idx, fault, file, i, rd_longitudes,
                   rd_latitudes, longitudes, latitudes, bounds, zoom, diag,
                   opened, completed, zargs, zrets>>

\* min_lon, max_lon, min_lat, max_lat = calculate_bounds(...); min() and
\* max() of an empty list raise ValueError
CalcBounds ==
    /\ pc = "bounds"
    /\ IF longitudes = <<>> \/ latitudes = <<>>
         THEN /\ pc' = "aborted"
              /\ fault' = "EmptyBounds"
              /\ UNCHANGED bounds
         ELSE /\ bounds' = calculate_bounds(longitudes, latitudes)
              /\ pc' = "zoom"
              /\ UNCHANGED fault
    /\ UNCHANGED <<csv_files, file_idx, file, i, rd_longitudes, rd_latitudes,
                   longitudes, latitudes, zoom, diag, fx, opened, completed,
                   zargs, zrets>>

\* zoom = estimate_zoom(min_lon, max_lon, min_lat, max_lat); print
EstimateZoom ==
    /\ pc = "zoom"
    /\ LET z == estimate_zoom(bounds[1], bounds[2], bounds[3], bounds[4])
       IN  IF z.ok
             THEN /\ zoom' = <<z.v>>
                  /\ diag' = [diag EXCEPT !.zoomlevel = Append(@, z.v)]
                  /\ pc' = "basemap"
                  /\ UNCHANGED fault
             ELSE /\ pc' = "aborted"
                  /\ fault' = "ZoomError"
                  /\ UNCHANGED <<zoom, diag>>
    /\ UNCHANGED <<csv_files, file_idx, file, i, rd_longitudes, rd_latitudes,
                   longitudes, latitudes, bounds, fx, opened, completed,
                   zargs, zrets>>

\* ctx.add_basemap(..., zoom=zoom): the tiles arrive
AddBasemap ==
    /\ pc = "basemap"
    /\ fx' = [fx EXCEPT !.basemap = Append(@, zoom[1])]
    /\ pc' = "show"
    /\ UNCHANGED <<csv_files, file_idx, fault, file, i, rd_longitudes,
                   rd_latitudes, longitudes, latitudes, bounds, zoom, diag,
                   opened, completed, zargs, zrets>>

\* ctx.add_basemap(..., zoom=zoom): the fetch fails, nothing catches it
TileFetchFault ==
    /\ pc = "basemap"
    /\ fx' = [fx EXCEPT !.basemap = Append(@, zoom[1])]
    /\ pc' = "aborted"
    /\ fault' = "TileFetch"
    /\ UNCHANGED <<csv_files, file_idx, file, i, rd_longitudes, rd_latitudes,
                   longitudes, latitudes, bounds, zoom, diag, opened,
                   completed, zargs, zrets>>

\* title, labels, grid, plt.show(); plot_gps_path returns
Show ==
    /\ pc = "show"
    /\ fx' = [fx EXCEPT !.shown = @ + 1]
    /\ completed' = Append(completed,
           [f |-> csv_files[file_idx], outcome |-> "rendered"])
    /\ pc' = "return"
    /\ UNCHANGED <<csv_files, file_idx, fault, file, i, rd_longitudes,
                   rd_latitudes, longitudes, latitudes, bounds, zoom, diag,
                   opened, zargs, zrets>>

---------------------------------------------------------------------------
(* __main__ *)

\* if not csv_files: print("No CSV files found in the current directory.")
NoCsvFiles ==
    /\ pc = "main"
    /\ csv_files = <<>>
    /\ diag' = [diag EXCEPT !.nofiles = @ + 1]
    /\ pc' = "done"
    /\ UNCHANGED <<csv_files, file_idx, fault, file, i, rd_longitudes,
                   rd_latitudes, longitudes, latitudes, bounds, zoom, fx,
                   opened, completed, zargs, zrets>>

\* the for loop is exhausted after the last call returned
Finish ==
    /\ pc = "return"
    /\ file_idx = Len(csv_files)
    /\ pc' = "done"
    /\ file' = <<>>
    /\ longitudes' = <<>>
    /\ latitudes' = <<>>
    /\ bounds' = <<>>
    /\ zoom' = <<>>
    /\ UNCHANGED <<csv_files, file_idx, fault, i, rd_longitudes, rd_latitudes,
                   diag, fx, opened, completed, zargs, zrets>>

\* find_csv_files(): the names of the .csv files of the directory
FileNames(n) == [j \in 1..n |-> j]

Init ==
    /\ csv_files \in {FileNames(n) : n \in 0..MaxFiles}
    /\ file_idx = 0
    /\ pc = "main"
    /\ fault = "none"
    /\ file = <<>>
    /\ i = 0
    /\ rd_longitudes = <<>>
    /\ rd_latitudes = <<>>
    /\ longitudes = <<>>
    /\ latitudes = <<>>
    /\ bounds = <<>>
    /\ zoom = <<>>
    /\ diag = NoDiag
    /\ fx = NoFx
    /\ opened = <<>>
    /\ completed = <<>>
    /\ zargs = <<>>
    /\ zrets = <<>>

Next ==
    \/ NoCsvFiles
    \/ StartFile
    \/ ReadRow
    \/ ReadReturn
    \/ Guard1000
    \/ GuardEmpty
    \/ BuildGeoms
    \/ CalcBounds
    \/ EstimateZoom
    \/ AddBasemap
    \/ TileFetchFault
    \/ Show
    \/ Finish

Spec == Init /\ [][Next]_vars

\* One thread runs the whole program: a step that can be taken is taken.
FairSpec == Spec /\ WF_vars(Next)

---------------------------------------------------------------------------
(* estimate_zoom called on its own, on two bounding boxes *)

RECURSIVE Pow2(_)
Pow2(n) == IF n = 0 THEN 1 ELSE 2 * Pow2(n - 1)

\* 2^-7 degree (the largest span of zoom 19) times 1, 32, 1024, ..., and
\* the values one unit below and above each; 0 for a single point
ZoomSpans ==
    {0} \cup { (Scale \div 128) * Pow2(5 * j) + o : j \in 0..ZoomSteps, o \in {-1, 0, 1} }

\* (min_lon, max_lon, min_lat, max_lat) with non-negative spans
BoxAt(lon0, lat0, lon_span, lat_span) ==
    <<lon0, lon0 + lon_span, lat0, lat0 + lat_span>>

ZoomInit ==
    /\ \E a, b, c, d \in ZoomSpans :
           zargs = << BoxAt(0, 0, a, b), BoxAt(LON_MIN, LAT_MIN, c, d) >>
    /\ zrets = <<>>
    /\ csv_files = <<>>
    /\ file_idx = 0
    /\ pc = "estimate_zoom"
    /\ fault = "none"
    /\ file = <<>>
    /\ i = 0
    /\ rd_longitudes = <<>>
    /\ rd_latitudes = <<>>
    /\ longitudes = <<>>
    /\ latitudes = <<>>
    /\ bounds = <<>>
    /\ zoom = <<>>
    /\ diag = NoDiag
    /\ fx = NoFx
    /\ opened = <<>>
    /\ completed = <<>>

\* the next call of estimate_zoom
ZoomCall ==
    /\ pc = "estimate_zoom"
    /\ Len(zrets) < Len(zargs)
    /\ LET a == zargs[Len(zrets) + 1]
       IN  zrets' = Append(zrets, estimate_zoom(a[1], a[2], a[3], a[4]))
    /\ UNCHANGED <<csv_files, file_idx, pc, fault, file, i, rd_longitudes,
                   rd_latitudes, longitudes, latitudes, bounds, zoom, diag,
                   fx, opened, completed, zargs>>

SpecZoom == ZoomInit /\ [][ZoomCall]_vars

---------------------------------------------------------------------------
(* Claims about estimate_zoom, under SpecZoom *)

LonSpan(box) == box[2] - box[1]
LatSpan(box) == box[4] - box[3]
MaxSpan(box) == IF LonSpan(box) >= LatSpan(box) THEN LonSpan(box) ELSE LatSpan(box)

\* 4096 degrees, where 12 - log2(span) is 0
Span4096 == Scale * Pow2(12)

\* floor(12 - log2(d / Scale)) for d > 0: the k with
\* 2^(11 - k) < d / Scale <= 2^(12 - k)
RefFloor(d) ==
    CHOOSE k \in -7..24 :
        IF k >= 0
            THEN Pow2(k) <= Span4096 \div d /\ Span4096 \div d < Pow2(k + 1)
            ELSE Span4096 * Pow2(-k - 1) < d /\ d <= Span4096 * Pow2(-k)

RefClamp(k) == IF k < 0 THEN 0 ELSE IF k > 19 THEN 19 ELSE k

RefZoom(box) ==
    IF LonSpan(box) = 0 /\ LatSpan(box) = 0 THEN 19
    ELSE RefClamp(RefFloor(MaxSpan(box)))

C4_ZoomMonotone ==
    Len(zrets) = 2 =>
        /\ MaxSpan(zargs[1]) <= MaxSpan(zargs[2]) => zrets[1].v >= zrets[2].v
        /\ MaxSpan(zargs[2]) <= MaxSpan(zargs[1]) => zrets[2].v >= zrets[1].v

\* a zero-span box against a box of different levels on the two axes
C4_Witness ==
    /\ Len(zrets) = 2
    /\ MaxSpan(zargs[1]) = 0
    /\ LonSpan(zargs[2]) = Scale \div 128 + 1
    /\ LatSpan(zargs[2]) = 8 * Scale
    /\ zrets[1].v = 19
    /\ zrets[2].v = 9

---------------------------------------------------------------------------
(* Claims about the reader, the renderer and the driver, under Spec *)

\* all the data rows of a file, in order
AllRows(f) == [j \in 1..NumRows(f) |-> RowAt(f, j)]

AllParse(f) ==
    \A n \in 1..Len(f) :
        ParseFloat(f[n].row["Longitude"]).ok /\ ParseFloat(f[n].row["Latitude"]).ok

\* 12.0 <= Longitude <= 18.9 and 48.5 <= Latitude <= 51.5, on the numbers
\* the two fields of a row stand for
RefInside(row) ==
    LET lon == Numeral[row["Longitude"]]
        lat == Numeral[row["Latitude"]]
    IN  /\ lon # NaN /\ lat # NaN
        /\ 120 * Tenth <= lon /\ lon <= 189 * Tenth
        /\ 485 * Tenth <= lat /\ lat <= 515 * Tenth

\* the rows of a file inside the box, in input order
RefAccepted(f) == SelectSeq(AllRows(f), RefInside)

\* C1: for a file whose rows all parse, read_gps_data returns two
\* equal-length sequences that are exactly the in-order subsequence of the
\* rows with 12.0 <= Longitude <= 18.9 and 48.5 <= Latitude <= 51.5.
C1_ReaderReturnsFilteredRows ==
    pc = "guard" =>
        /\ AllParse(file)
        /\ Len(longitudes) = Len(latitudes)
        /\ LET acc == RefAccepted(file)
           IN  /\ Len(longitudes) = Len(acc)
               /\ \A j \in 1..Len(acc) :
                      /\ longitudes[j] = Numeral[acc[j]["Longitude"]]
                      /\ latitudes[j] = Numeral[acc[j]["Latitude"]]

\* the short file has been read: four rows kept in order, the boundary
\* values among them, five rows dropped
C1_Witness ==
    /\ pc = "guard"
    /\ longitudes = <<145 * Tenth, 120 * Tenth, 189 * Tenth, 189 * Tenth>>
    /\ latitudes = <<500 * Tenth, 515 * Tenth, 485 * Tenth, 485 * Tenth>>
    /\ NumRows(file) = 9

\* plot_gps_path is past its guards, or has left a render effect (its
\* locals are gone once the driver has finished)
Rendering ==
    \/ pc \in {"plot", "bounds", "zoom", "basemap", "show"}
    \/ pc \in {"return", "aborted"} /\ fx # NoFx

\* C2: plot_gps_path renders a file (geometries, basemap request, figure)
\* if and only if at least 1000 points were accepted; with fewer there is
\* no render step and no basemap request, only the skip diagnostic. The
\* count is that of the accepted points, not of the rows.
C2_RenderIffThousandAccepted ==
    /\ Rendering => Len(longitudes) >= 1000
    /\ pc = "return" =>
          IF Len(longitudes) >= 1000
              THEN /\ fx.geoms = Len(longitudes)
                   /\ Len(fx.basemap) = 1
                   /\ fx.shown = 1
                   /\ diag.less1000 = 0
              ELSE /\ fx = NoFx
                   /\ diag.less1000 = 1
                   /\ diag.zoomlevel = <<>>

\* a file with exactly 1000 accepted points among more rows was rendered
C2_Witness ==
    /\ pc = "return"
    /\ Len(longitudes) = 1000
    /\ NumRows(file) > 1000
    /\ fx.shown = 1

IsMinOf(m, s) == (\E j \in 1..Len(s) : s[j] = m) /\ (\A j \in 1..Len(s) : m <= s[j])
IsMaxOf(m, s) == (\E j \in 1..Len(s) : s[j] = m) /\ (\A j \in 1..Len(s) : m >= s[j])

\* C7: calculate_bounds is never invoked on an empty coordinate set, and
\* the box it returns has min <= max on each axis and is the per-axis
\* minimum and maximum of the accepted points.
C7_BoundsOfNonEmptySet ==
    /\ pc = "bounds" => longitudes # <<>> /\ latitudes # <<>>
    /\ fault # "EmptyBounds"
    /\ bounds # <<>> =>
          /\ bounds[1] <= bounds[2]
          /\ bounds[3] <= bounds[4]
          /\ IsMinOf(bounds[1], longitudes) /\ IsMaxOf(bounds[2], longitudes)
          /\ IsMinOf(bounds[3], latitudes) /\ IsMaxOf(bounds[4], latitudes)

\* the bounds of a set whose extremes are not its first point
C7_Witness ==
    /\ pc = "zoom"
    /\ bounds = <<120 * Tenth, 189 * Tenth, 485 * Tenth, 515 * Tenth>>
    /\ longitudes[1] = 145 * Tenth

\* the rows among the first n of a file that lie outside the box
RefOutside(f, n) == Cardinality({j \in 1..n : ~RefInside(RowAt(f, j))})

\* C8: one skip diagnostic per row outside the box and none for a row
\* inside it: at every point of the read loop, and at its end, accepted
\* points + skip diagnostics = rows parsed so far.
C8_AcceptedPlusSkippedIsParsed ==
    /\ pc = "read" =>
          /\ Len(rd_longitudes) + diag.outside = i
          /\ Len(rd_latitudes) = Len(rd_longitudes)
          /\ i = NumRows(file) => diag.outside = RefOutside(file, i)
    /\ pc \in {"guard", "guard_empty", "plot", "bounds", "zoom", "basemap",
               "show", "return"} =>
          Len(longitudes) + diag.outside = NumRows(file)

\* 500 rows inside and 10,000 outside: 10,000 skip lines and no render
C8_Witness ==
    /\ pc = "return"
    /\ Len(longitudes) = 500
    /\ diag.outside = 10000
    /\ NumRows(file) = 10500
    /\ fx = NoFx

\* C9: an empty accepted set is never rendered, whatever the number of
\* rows, and returns through the fewer-than-1000 guard with its
\* diagnostic: the empty-set guard is evaluated only after that guard has
\* passed, so its "No valid GPS data to plot" line is never printed.
C9_EmptySetLeavesByFirstGuard ==
    /\ diag.novalid = 0
    /\ pc = "guard_empty" => Len(longitudes) >= 1000 /\ Len(latitudes) >= 1000
    /\ longitudes = <<>> => ~Rendering
    /\ pc = "return" /\ longitudes = <<>> => diag.less1000 = 1

\* more than 1000 rows, none accepted, left by the first guard
C9_Witness ==
    /\ pc = "return"
    /\ longitudes = <<>>
    /\ NumRows(file) > 1000
    /\ diag.outside = NumRows(file)
    /\ diag.less1000 = 1

\* C10: the box handed to estimate_zoom lies inside the filter box, so its
\* larger span is at most 6.9 degrees and the zoom level requested from
\* the tile provider is in 9..19.
C10_RequestedZoomAtLeastNine ==
    /\ bounds # <<>> =>
          /\ 120 * Tenth <= bounds[1] /\ bounds[1] <= bounds[2]
          /\ bounds[2] <= 189 * Tenth
          /\ 485 * Tenth <= bounds[3] /\ bounds[3] <= bounds[4]
          /\ bounds[4] <= 515 * Tenth
          /\ MaxSpan(bounds) <= 69 * Tenth
    /\ zoom # <<>> => zoom[1] \in 9..19
    /\ \A j \in 1..Len(fx.basemap) : fx.basemap[j] \in 9..19

\* the whole filter box requested at zoom 9
C10_Witness ==
    /\ fx.basemap = <<9>>
    /\ MaxSpan(bounds) = 69 * Tenth

\* both fields of the row are texts float() accepts
RowParses(row) == ParseFloat(row["Longitude"]).ok /\ ParseFloat(row["Latitude"]).ok

\* the run ended on the ValueError of float(): the reader stands at the
\* first row that does not parse, nothing was returned or rendered for
\* the file, and the files before it have all returned
C5_AbortedOnBadRow ==
    pc = "aborted" /\ fault = "ValueError" =>
        /\ i < NumRows(file)
        /\ ~RowParses(RowAt(file, i + 1))
        /\ \A j \in 1..i : RowParses(RowAt(file, j))
        /\ longitudes = <<>> /\ latitudes = <<>>
        /\ fx = NoFx
        /\ diag.less1000 = 0 /\ diag.novalid = 0
        /\ Len(opened) = file_idx
        /\ Len(completed) = file_idx - 1

\* a file that got past the reader has no malformed row
C5_ReturnedOnlyIfAllParse ==
    pc \in {"guard", "guard_empty", "plot", "bounds", "zoom", "basemap",
            "show", "return"} => AllParse(file)

\* nothing happens after the abort, and what earlier files left in the
\* record of returned calls is never changed
C5_Step ==
    /\ pc # "aborted"
    /\ Len(completed') >= Len(completed)
    /\ \A j \in 1..Len(completed) : completed'[j] = completed[j]

\* C5: a Longitude or Latitude field that does not parse stops the reading
\* at that row with an uncaught error: the file is never rendered, even
\* after 1000 accepted rows, no partial coordinate set is returned, no
\* later file is read or rendered, and the files processed before are
\* unaffected.
C5_ParseErrorAbortsBatch ==
    /\ [](C5_AbortedOnBadRow /\ C5_ReturnedOnlyIfAllParse)
    /\ [][C5_Step]_vars

\* the second of three files fails after 1000 accepted rows, the first
\* having been rendered
C5_Witness ==
    /\ pc = "aborted"
    /\ fault = "ValueError"
    /\ Len(rd_longitudes) >= 1000
    /\ file_idx = 2
    /\ Len(csv_files) = 3
    /\ completed = <<[f |-> 1, outcome |-> "rendered"]>>

---------------------------------------------------------------------------
(* The driver's order and termination, under FairSpec *)

CompletedNames == [j \in 1..Len(completed) |-> completed[j].f]

\* files are taken in list order, one in progress at most
C6_InOrder ==
    /\ file_idx <= Len(csv_files)
    /\ opened = SubSeq(csv_files, 1, file_idx)
    /\ CompletedNames = SubSeq(csv_files, 1, Len(completed))
    /\ Len(completed) <= Len(opened)
    /\ Len(opened) <= Len(completed) + 1
    /\ pc \in {"read", "guard", "guard_empty", "plot", "bounds", "zoom",
               "basemap", "show"} => Len(completed) = Len(opened) - 1
    /\ pc = "done" =>
          /\ CompletedNames = csv_files
          /\ opened = csv_files
          /\ diag.nofiles = (IF csv_files = <<>> THEN 1 ELSE 0)

\* a file is opened only when every file opened before it has returned
C6_Step ==
    Len(opened') > Len(opened) =>
        /\ Len(completed) = Len(opened)
        /\ opened' = Append(opened, csv_files[Len(opened) + 1])
        /\ completed' = completed

\* C6: in every run without a parse fault and without a tile-fetch fault
\* the driver processes each discovered file exactly once, one at a time
\* in list order, and then terminates; a file skipped for insufficient
\* data does not keep the later files from being processed, and with no
\* file the driver only reports that and terminates.
C6_AllFilesInOrderThenDone ==
    /\ []C6_InOrder
    /\ [][C6_Step]_vars
    /\ ([](pc # "aborted") => <>(pc = "done"))

\* done after a skipped file was followed by a rendered and a skipped one
C6_Witness ==
    /\ pc = "done"
    /\ completed = << [f |-> 1, outcome |-> "skipped"],
                      [f |-> 2, outcome |-> "rendered"],
                      [f |-> 3, outcome |-> "skipped"] >>

====
